---- MODULE Spec2Model ----
(***************************************************************************)
(* A model of the three algorithmic routines of the GREAT 3D suite:        *)
(*   compute_gene_coordinates   (great_3d/genome_3D_integration.py)        *)
(*   get_significant_corr_genes (great_3d/plotly_graphs.py)                *)
(*   distance_matrice, dico_matrice (dev_Rakotomavo/multiepigenomics_3d.py)*)
(*                                                                         *)
(* Data frames are sequences of records (one record per row, in row        *)
(* order), a dict is a sequence of <<key, value>> pairs in insertion       *)
(* order.  The coordinates of compute_gene_coordinates are exact rationals *)
(* with a separate NaN value, stored multiplied by `resolution`.  The      *)
(* statistics of get_significant_corr_genes are IEEE 754 doubles, computed *)
(* with the roundings of the hardware.                                     *)
(***************************************************************************)
EXTENDS Integers, Sequences, FiniteSets, TLC

VARIABLES
    pc,            \* position in the routine under execution
    error,         \* name of the exception that ended the call, "" if none
    \* ---- compute_gene_coordinates
    dfGenes,       \* rows [Index, chr, start]
    dfGenome,      \* rows [chr, midpoint, X, Y, Z]
    resolution,
    chromsGenome, chromsGenes,
    ci,            \* position of the `for ch in chromsGenes` loop
    dfChromGene, dfChromGenome,
    gi,            \* position of the `for gene in dfChromGene.itertuples()` loop
    point,         \* <<row>> : the inner loop variable, <<>> while unbound
    pointBefor,    \* <<row>> : the before anchor, <<>> while unbound
    pointAfter,    \* the data frame slice holding the after anchor
    names, chrs, starts, Xs, Ys, Zs,
    df,            \* the returned data frame
    \* ---- get_significant_corr_genes
    corSumsDict, coef, corrs, mad, med, thresP, thresN, significant,
    \* ---- distance_matrice / dico_matrice
    dt, matrice, nb_genes, di, dico

projVars == <<dfGenes, dfGenome, resolution, chromsGenome, chromsGenes, ci,
              dfChromGene, dfChromGenome, gi, point, pointBefor, pointAfter,
              names, chrs, starts, Xs, Ys, Zs, df>>
sigVars  == <<corSumsDict, coef, corrs, mad, med, thresP, thresN, significant>>
nnVars   == <<dt, matrice, nb_genes, di, dico>>
vars     == <<pc, error, projVars, sigVars, nnVars>>

(***************************************************************************)
(* Bounds of the model.                                                    *)
(***************************************************************************)
NumBins    == 3    \* bins per chromosome: midpoints of the first NumBins bins
MaxRows    == 3    \* rows of the genome table
MaxGenes   == 2    \* rows of the genes table
Resolution == 2    \* the resolution argument

Chroms    == {"chr1", "chr2"}
Midpoints == {Resolution \div 2 + k * Resolution : k \in 0..(NumBins - 1)}
Starts    == 0..(NumBins * Resolution)
\* 3D coordinates of the bins; any two of them are an integer distance apart
Coords    == {<<0, 0, 0>>, <<3, 4, 0>>}

(***************************************************************************)
(* Generic helpers.                                                        *)
(***************************************************************************)
Abs(x) == IF x < 0 THEN -x ELSE x

Range(s) == {s[i] : i \in DOMAIN s}

Min(S) == CHOOSE x \in S : \A y \in S : x <= y

\* math.sqrt on the perfect squares the model's coordinates produce
Sqrt(n) == CHOOSE r \in 0..n : r * r = n

\* A float: NaN, or the finite value num (scaled as the header explains)
Fl(n) == [nan |-> FALSE, num |-> n]
NaN   == [nan |-> TRUE, num |-> 0]

\* a + b on floats
FAdd(a, b) == IF a.nan \/ b.nan THEN NaN ELSE Fl(a.num + b.num)

\* The orders in which list(set(...)) may enumerate the set S
Enumerations(S) ==
    {s \in [1..Cardinality(S) -> S] : \A i, j \in 1..Cardinality(S) : i # j => s[i] # s[j]}

\* The distinct values of a column in order of first occurrence
RECURSIVE FirstSeen(_)
FirstSeen(col) ==
    IF col = <<>> THEN <<>>
    ELSE LET front == FirstSeen(SubSeq(col, 1, Len(col) - 1))
             last  == col[Len(col)]
         IN IF last \in Range(front) THEN front ELSE Append(front, last)

ChrColumn(frame) == [i \in DOMAIN frame |-> frame[i].chr]

(***************************************************************************)
(* compute_gene_coordinates                                                *)
(***************************************************************************)
\* dfX[dfX["chr"] == ch]
FilterChr(frame, ch) == SelectSeq(frame, LAMBDA r : r.chr = ch)

\* Position in dfChromGenome of the row at which the inner loop breaks,
\* 0 when the loop runs to its end without a break
BreakIndex(gene, frame, res) ==
    LET hits == {i \in DOMAIN frame : Abs(gene.start - frame[i].midpoint) < res}
    IN IF hits = {} THEN 0 ELSE Min(hits)

\* dfChromGenome[dfChromGenome["midpoint"] == point.midpoint + resolution]
AfterSlice(frame, pt, res) ==
    SelectSeq(frame, LAMBDA r : r.midpoint = pt.midpoint + res)

Distance(pb, pa) ==
    Sqrt((pa.X - pb.X) * (pa.X - pb.X) + (pa.Y - pb.Y) * (pa.Y - pb.Y)
         + (pa.Z - pb.Z) * (pa.Z - pb.Z))

\* lines 47-49: a_bNorm[k] * geneCoef, times resolution, that is
\* ((a - b) / d) * (((s - m) / res) * d).  a - b is a numpy scalar (a comes from
\* .iloc[0]), so for d = 0 the division warns and gives nan (0/0: d = 0 makes
\* every component 0) instead of raising.
GeneExtr(a, b, d, s, m) ==
    IF d = 0 THEN NaN ELSE Fl(((a - b) * ((s - m) * d)) \div d)

\* The builtin function object that line 57 stores in the "chr" column
BuiltinChr == "<built-in function chr>"

ProjInit ==
    /\ pc = "check"
    /\ error = ""
    /\ resolution = Resolution
    /\ \E n \in 0..MaxRows :
         \E t \in [1..n -> [chr : Chroms, midpoint : Midpoints, X : {0, 3}, Y : {0, 4}, Z : {0}]] :
            /\ \A i \in 1..n : <<t[i].X, t[i].Y, t[i].Z>> \in Coords
            /\ \A i, j \in 1..n : i # j => <<t[i].chr, t[i].midpoint>> # <<t[j].chr, t[j].midpoint>>
            \* the bins of a chromosome are its first bins, at a fixed step
            /\ \A i \in 1..n : t[i].midpoint > Resolution =>
                  \E j \in 1..n : /\ t[j].chr = t[i].chr
                                  /\ t[j].midpoint = t[i].midpoint - Resolution
            /\ dfGenome = t
    /\ \E n \in 0..MaxGenes :
         \E g \in [1..n -> [chr : Chroms, start : Starts]] :
            dfGenes = [i \in 1..n |-> [Index |-> i, chr |-> g[i].chr, start |-> g[i].start]]
    /\ chromsGenome = <<>> /\ chromsGenes = <<>>
    /\ ci = 0 /\ gi = 0
    /\ dfChromGene = <<>> /\ dfChromGenome = <<>>
    /\ point = <<>> /\ pointBefor = <<>> /\ pointAfter = <<>>
    /\ names = <<>> /\ chrs = <<>> /\ starts = <<>>
    /\ Xs = <<>> /\ Ys = <<>> /\ Zs = <<>>
    /\ df = <<>>

\* lines 22-25
CheckChromosomes ==
    /\ pc = "check"
    /\ \E eg \in Enumerations(Range(ChrColumn(dfGenome))),
          es \in Enumerations(Range(ChrColumn(dfGenes))) :
          \* two sets filled with the same elements in the same order enumerate alike
          /\ FirstSeen(ChrColumn(dfGenome)) = FirstSeen(ChrColumn(dfGenes)) => eg = es
          /\ chromsGenome' = eg
          /\ chromsGenes' = es
          /\ IF es # eg
             THEN pc' = "raised" /\ error' = "ValueError" /\ ci' = ci
             ELSE pc' = "chrom" /\ error' = error /\ ci' = 1
    /\ UNCHANGED <<dfGenes, dfGenome, resolution, dfChromGene, dfChromGenome, gi,
                   point, pointBefor, pointAfter, names, chrs, starts, Xs, Ys, Zs, df>>
    /\ UNCHANGED <<sigVars, nnVars>>

\* lines 34-36: the next chromosome, or the end of the outer loop
SelectChromosome ==
    /\ pc = "chrom"
    /\ ci <= Len(chromsGenes)
    /\ dfChromGene' = FilterChr(dfGenes, chromsGenes[ci])
    /\ dfChromGenome' = FilterChr(dfGenome, chromsGenes[ci])
    /\ gi' = 1
    /\ pc' = "gene"
    /\ UNCHANGED <<error, dfGenes, dfGenome, resolution, chromsGenome, chromsGenes, ci,
                   point, pointBefor, pointAfter, names, chrs, starts, Xs, Ys, Zs, df>>
    /\ UNCHANGED <<sigVars, nnVars>>

\* lines 37-55: one iteration of the gene loop
ProcessGene ==
    /\ pc = "gene"
    /\ LET gene == dfChromGene[gi]
           b    == BreakIndex(gene, dfChromGenome, resolution)
           pt   == IF b = 0 THEN dfChromGenome[Len(dfChromGenome)] ELSE dfChromGenome[b]
           pb   == IF b = 0 THEN pointBefor ELSE <<pt>>
           pa   == IF b = 0 THEN pointAfter ELSE AfterSlice(dfChromGenome, pt, resolution)
       IN /\ point' = <<pt>>
          /\ pointBefor' = pb
          /\ pointAfter' = pa
          /\ IF pb = <<>>
             THEN \* line 44: pointBefor was never assigned
                  /\ pc' = "raised" /\ error' = "UnboundLocalError"
                  /\ UNCHANGED <<ci, gi, names, chrs, starts, Xs, Ys, Zs>>
             ELSE IF pa = <<>>
             THEN \* line 45: .iloc[0] of an empty frame
                  /\ pc' = "raised" /\ error' = "IndexError"
                  /\ UNCHANGED <<ci, gi, names, chrs, starts, Xs, Ys, Zs>>
             ELSE LET d == Distance(pb[1], pa[1])
                  IN /\ names' = Append(names, gene.Index)
                     /\ chrs' = Append(chrs, chromsGenes[ci])
                     /\ starts' = Append(starts, gene.start)
                     /\ Xs' = Append(Xs, FAdd(Fl(resolution * pt.X),
                                 GeneExtr(pa[1].X, pb[1].X, d, gene.start, pt.midpoint)))
                     /\ Ys' = Append(Ys, FAdd(Fl(resolution * pt.Y),
                                 GeneExtr(pa[1].Y, pb[1].Y, d, gene.start, pt.midpoint)))
                     /\ Zs' = Append(Zs, FAdd(Fl(resolution * pt.Z),
                                 GeneExtr(pa[1].Z, pb[1].Z, d, gene.start, pt.midpoint)))
                     /\ error' = error
                     /\ IF gi < Len(dfChromGene)
                        THEN gi' = gi + 1 /\ ci' = ci /\ pc' = "gene"
                        ELSE gi' = gi /\ ci' = ci + 1 /\ pc' = "chrom"
    /\ UNCHANGED <<dfGenes, dfGenome, resolution, chromsGenome, chromsGenes,
                   dfChromGene, dfChromGenome, df>>
    /\ UNCHANGED <<sigVars, nnVars>>

\* lines 57-59: the "chr" column is the scalar `chr`, broadcast over the rows
BuildFrame ==
    /\ pc = "chrom"
    /\ ci > Len(chromsGenes)
    /\ df' = [i \in 1..Len(names) |->
                [Index |-> names[i], chr |-> BuiltinChr, start |-> starts[i],
                 X |-> Xs[i], Y |-> Ys[i], Z |-> Zs[i]]]
    /\ pc' = "returned"
    /\ UNCHANGED <<error, dfGenes, dfGenome, resolution, chromsGenome, chromsGenes, ci,
                   dfChromGene, dfChromGenome, gi, point, pointBefor, pointAfter,
                   names, chrs, starts, Xs, Ys, Zs>>
    /\ UNCHANGED <<sigVars, nnVars>>

(***************************************************************************)
(* IEEE 754 binary64 arithmetic, for get_significant_corr_genes.           *)
(*                                                                         *)
(* A double is NaN or a signed multiple of 2^-FracBits.  Its magnitude, in *)
(* units of 2^-FracBits, is a natural number written as a sequence of      *)
(* limbs in base 2^LimbBits, least significant limb first, without leading *)
(* zero limbs (zero is <<>>).  Every operation computes the exact result   *)
(* and rounds it to MantBits significant bits, ties to even, as the        *)
(* hardware does; the values the model meets lie between 2^-4 and 2^13 in  *)
(* magnitude (or are 0), where neither overflow nor underflow occurs.      *)
(***************************************************************************)
MantBits == 53    \* significant bits of a binary64
FracBits == 60    \* resolution of the fixed-point grid
LimbBits == 15

Base == 2^LimbBits

RECURSIVE LNorm(_)
LNorm(a) == IF a # <<>> /\ a[Len(a)] = 0 THEN LNorm(SubSeq(a, 1, Len(a) - 1)) ELSE a

Limb(a, i) == IF i <= Len(a) THEN a[i] ELSE 0

\* limbs i.. of a + b + carry
RECURSIVE LAddFrom(_, _, _, _)
LAddFrom(a, b, i, c) ==
    IF i > Len(a) /\ i > Len(b) THEN (IF c = 0 THEN <<>> ELSE <<c>>)
    ELSE LET t == Limb(a, i) + Limb(b, i) + c
         IN <<t % Base>> \o LAddFrom(a, b, i + 1, t \div Base)

LAdd(a, b) == LAddFrom(a, b, 1, 0)

\* limbs i.. of a - b - borrow, for a >= b
RECURSIVE LSubFrom(_, _, _, _)
LSubFrom(a, b, i, w) ==
    IF i > Len(a) THEN <<>>
    ELSE LET t == Limb(a, i) - Limb(b, i) - w
         IN <<IF t < 0 THEN t + Base ELSE t>> \o LSubFrom(a, b, i + 1, IF t < 0 THEN 1 ELSE 0)

LSub(a, b) == LNorm(LSubFrom(a, b, 1, 0))

LLess(a, b) ==
    \/ Len(a) < Len(b)
    \/ /\ Len(a) = Len(b)
       /\ \E i \in DOMAIN a : a[i] < b[i] /\ \A j \in DOMAIN a : j > i => a[j] = b[j]

\* a * c for a small natural c
RECURSIVE LMulFrom(_, _, _, _)
LMulFrom(a, c, i, carry) ==
    IF i > Len(a) THEN (IF carry = 0 THEN <<>> ELSE <<carry>>)
    ELSE LET t == a[i] * c + carry
         IN <<t % Base>> \o LMulFrom(a, c, i + 1, t \div Base)

LMulSmall(a, c) == LNorm(LMulFrom(a, c, 1, 0))

\* quotient and remainder of limbs 1..i of a (with r carried in from above) by a small c
RECURSIVE LDivFrom(_, _, _, _)
LDivFrom(a, c, i, r) ==
    IF i = 0 THEN [q |-> <<>>, r |-> r]
    ELSE LET cur   == r * Base + a[i]
             lower == LDivFrom(a, c, i - 1, cur % c)
         IN [q |-> Append(lower.q, cur \div c), r |-> lower.r]

LDivSmall(a, c) ==
    LET d == LDivFrom(a, c, Len(a), 0) IN [q |-> LNorm(d.q), r |-> d.r]

\* a \div 2^k, and whether a bit was shifted out
RECURSIVE LShr(_, _)
LShr(a, k) ==
    IF k = 0 THEN [q |-> a, sticky |-> FALSE]
    ELSE LET step == IF k < LimbBits - 1 THEN k ELSE LimbBits - 2
             d    == LDivSmall(a, 2^step)
             rest == LShr(d.q, k - step)
         IN [q |-> rest.q, sticky |-> d.r # 0 \/ rest.sticky]

\* a * 2^k
RECURSIVE LShl(_, _)
LShl(a, k) ==
    IF k = 0 THEN a
    ELSE LET step == IF k < LimbBits - 1 THEN k ELSE LimbBits - 2
         IN LShl(LMulSmall(a, 2^step), k - step)

BitLen(a) ==
    IF a = <<>> THEN 0
    ELSE LimbBits * (Len(a) - 1)
           + (CHOOSE n \in 1..LimbBits : 2^(n - 1) <= a[Len(a)] /\ a[Len(a)] < 2^n)

IsOdd(a) == a # <<>> /\ a[1] % 2 = 1

\* round to nearest, ties to even, at MantBits significant bits
RoundMant(a) ==
    IF BitLen(a) <= MantBits THEN a
    ELSE LET k    == BitLen(a) - MantBits
             s    == LShr(a, k - 1)
             q    == LDivSmall(s.q, 2).q
             up   == IsOdd(s.q) /\ (s.sticky \/ IsOdd(q))
         IN LShl(IF up THEN LAdd(q, <<1>>) ELSE q, k)

DNaN == [nan |-> TRUE, neg |-> FALSE, mag |-> <<>>]

Dbl(neg, mag) == [nan |-> FALSE, neg |-> neg /\ mag # <<>>, mag |-> mag]

DZero == Dbl(FALSE, <<>>)

DNeg(x) == IF x.nan THEN DNaN ELSE Dbl(~x.neg, x.mag)

DAbs(x) == IF x.nan THEN DNaN ELSE Dbl(FALSE, x.mag)

\* x + y
DAdd(x, y) ==
    IF x.nan \/ y.nan THEN DNaN
    ELSE IF x.neg = y.neg THEN Dbl(x.neg, RoundMant(LAdd(x.mag, y.mag)))
    ELSE IF LLess(x.mag, y.mag) THEN Dbl(y.neg, RoundMant(LSub(y.mag, x.mag)))
    ELSE Dbl(x.neg, RoundMant(LSub(x.mag, y.mag)))

\* x - y
DSub(x, y) == DAdd(x, DNeg(y))

\* c * x for a natural number c
DMulNat(c, x) == IF x.nan THEN DNaN ELSE Dbl(x.neg, RoundMant(LMulSmall(x.mag, c)))

\* x / 2: exact, the grid being fine enough to hold the half of every sum the
\* model halves
DHalf(x) == IF x.nan THEN DNaN ELSE Dbl(x.neg, LDivSmall(x.mag, 2).q)

\* x < y and x <= y; False when either is nan
DLess(x, y) ==
    /\ ~x.nan /\ ~y.nan
    /\ \/ x.neg /\ ~y.neg
       \/ ~x.neg /\ ~y.neg /\ LLess(x.mag, y.mag)
       \/ x.neg /\ y.neg /\ LLess(y.mag, x.mag)

DLe(x, y) == ~x.nan /\ ~y.nan /\ (x = y \/ DLess(x, y))

\* the natural number n in limbs
RECURSIVE LFromNat(_)
LFromNat(n) == IF n = 0 THEN <<>> ELSE <<n % Base>> \o LFromNat(n \div Base)

\* The double the literal n/10 denotes: the double nearest to n/10.  The
\* quotient is taken with one extra bit, made odd when the division leaves a
\* remainder, so that the rounding sees on which side of a tie n/10 lies.
FromTenths(n) ==
    LET d == LDivSmall(LShl(LFromNat(Abs(n)), FracBits + 1), 10)
        e == IF d.r # 0 /\ ~IsOdd(d.q) THEN LAdd(d.q, <<1>>) ELSE d.q
    IN Dbl(n < 0, LDivSmall(RoundMant(e), 2).q)

(***************************************************************************)
(* get_significant_corr_genes                                              *)
(*                                                                         *)
(* corSumsDict is a sequence of <<gene, <<signedSum>>>> pairs: only v[0]   *)
(* of each value is read.  The signed sums are doubles; the model draws    *)
(* them from the doubles that the decimal literals n/10 denote.            *)
(***************************************************************************)
MaxSummaries == 3    \* entries of corSumsDict
MaxTenths    == 3    \* signed sums range over the doubles of -MaxTenths/10..MaxTenths/10
MaxCoef      == 2    \* coef ranges over 0..MaxCoef

GeneIds == <<"A", "B", "C", "D", "E", "F">>

DictOf(tenths) == [i \in DOMAIN tenths |-> <<GeneIds[i], <<FromTenths(tenths[i])>>>>]

\* {A: 5, B: 5.1, C: 4.9, D: 5.2, E: 500}
OutlierExample == DictOf(<<50, 51, 49, 52, 5000>>)

\* np.median: the middle element of the sorted list, or the mean of the two
\* middle ones (their sum divided by 2); nan for an empty list
Median(s) ==
    LET t == SortSeq(s, DLess)
        n == Len(s)
    IN IF n = 0 THEN DNaN
       ELSE IF n % 2 = 1 THEN t[(n + 1) \div 2]
       ELSE DHalf(DAdd(t[n \div 2], t[n \div 2 + 1]))

\* stats.median_abs_deviation with its defaults (center = np.median,
\* scale = 1.0): np.median(np.abs(x - med)); nan for an empty list
MedianAbsDeviation(s) ==
    LET m == Median(s)
    IN Median([i \in DOMAIN s |-> DAbs(DSub(s[i], m))])

\* line 32 without its `and v[0] <= 0`
PassesSymmetric(v, tP, tN) == DLess(tP, v[1]) \/ DLe(v[1], tN)

\* line 32
Passes(v, tP, tN) == DLess(tP, v[1]) \/ (DLe(v[1], tN) /\ DLe(v[1], DZero))

\* lines 30-32
RECURSIVE Comprehension(_, _, _)
Comprehension(items, tP, tN) ==
    IF items = <<>> THEN <<>>
    ELSE LET rest == Comprehension(Tail(items), tP, tN)
         IN IF Passes(Head(items)[2], tP, tN) THEN <<Head(items)[1]>> \o rest ELSE rest

SigInit ==
    /\ pc = "stats"
    /\ error = ""
    /\ \/ \E n \in 0..MaxSummaries :
            \E s \in [1..n -> (-MaxTenths)..MaxTenths] :
               /\ corSumsDict = DictOf(s)
               /\ coef \in 0..MaxCoef
       \/ corSumsDict = OutlierExample /\ coef = 2
    /\ corrs = <<>> /\ mad = DNaN /\ med = DNaN
    /\ thresP = DNaN /\ thresN = DNaN /\ significant = <<>>

\* lines 25-29
ComputeThresholds ==
    /\ pc = "stats"
    /\ LET cs == [i \in DOMAIN corSumsDict |-> corSumsDict[i][2][1]]
           m  == Median(cs)
           md == MedianAbsDeviation(cs)
       IN /\ corrs' = cs
          /\ mad' = md
          /\ med' = m
          /\ thresP' = DAdd(m, DMulNat(coef, md))
          /\ thresN' = DSub(m, DMulNat(coef, md))
    /\ pc' = "classify"
    /\ UNCHANGED <<error, corSumsDict, coef, significant>>
    /\ UNCHANGED <<projVars, nnVars>>

\* lines 30-32
Classify ==
    /\ pc = "classify"
    /\ significant' = Comprehension(corSumsDict, thresP, thresN)
    /\ pc' = "done"
    /\ UNCHANGED <<error, corSumsDict, coef, corrs, mad, med, thresP, thresN>>
    /\ UNCHANGED <<projVars, nnVars>>

(***************************************************************************)
(* distance_matrice and dico_matrice                                       *)
(*                                                                         *)
(* dt is a table with one numeric column; its row labels are the row       *)
(* positions.  A Series is a sequence of <<label, value>> pairs.           *)
(***************************************************************************)
MaxEntities == 3    \* rows of dt
MaxFeature  == 2    \* feature values range over 0..MaxFeature

\* lines 16-23: pdist + squareform on a one-column table, labelled by dt.index
DistanceMatrice(data) ==
    [i \in DOMAIN data |-> [j \in DOMAIN data |-> Abs(data[i] - data[j])]]

\* matrice[label]: the column as a Series over the row labels
Column(m, label) == [i \in DOMAIN m |-> <<i, m[i][label]>>]

\* The results sort_values() may give: the rows in non-decreasing order of
\* value.  The default kind is quicksort, which is not stable: rows of equal
\* value come in an order the sorting routine of the build decides.
SortValues(series) ==
    {s \in [DOMAIN series -> Range(series)] :
        /\ \A i, j \in DOMAIN s : i # j => s[i] # s[j]
        /\ \A i \in DOMAIN s : i > 1 => s[i - 1][2] <= s[i][2]}

\* positional slice [1:n+1]
Slice(series, n) ==
    SubSeq(series, 2, IF n + 1 < Len(series) THEN n + 1 ELSE Len(series))

NnInit ==
    /\ pc = "loop"
    /\ error = ""
    /\ \E n \in 2..MaxEntities : dt \in [1..n -> 0..MaxFeature]
    /\ matrice = DistanceMatrice(dt)
    /\ nb_genes \in 1..MaxEntities
    /\ di = 1
    /\ dico = <<>>

\* lines 30-32: one iteration of the loop
DicoStep ==
    /\ pc = "loop"
    /\ di <= Len(matrice)
    /\ \E sorted \in SortValues(Column(matrice, di)) :
          dico' = Append(dico, <<di, Slice(sorted, nb_genes)>>)
    /\ di' = di + 1
    /\ UNCHANGED <<pc, error, dt, matrice, nb_genes>>
    /\ UNCHANGED <<projVars, sigVars>>

\* line 33
DicoReturn ==
    /\ pc = "loop"
    /\ di > Len(matrice)
    /\ pc' = "nn_done"
    /\ UNCHANGED <<error, nnVars>>
    /\ UNCHANGED <<projVars, sigVars>>

(***************************************************************************)
(* Specifications: one per routine; the variables of the other routines    *)
(* stay idle.                                                              *)
(***************************************************************************)
ProjIdle ==
    /\ dfGenes = <<>> /\ dfGenome = <<>> /\ resolution = 0
    /\ chromsGenome = <<>> /\ chromsGenes = <<>>
    /\ ci = 0 /\ gi = 0
    /\ dfChromGene = <<>> /\ dfChromGenome = <<>>
    /\ point = <<>> /\ pointBefor = <<>> /\ pointAfter = <<>>
    /\ names = <<>> /\ chrs = <<>> /\ starts = <<>>
    /\ Xs = <<>> /\ Ys = <<>> /\ Zs = <<>>
    /\ df = <<>>

SigIdle ==
    /\ corSumsDict = <<>> /\ coef = 0 /\ corrs = <<>> /\ mad = DNaN /\ med = DNaN
    /\ thresP = DNaN /\ thresN = DNaN /\ significant = <<>>

NnIdle ==
    /\ dt = <<>> /\ matrice = <<>> /\ nb_genes = 0 /\ di = 0 /\ dico = <<>>

InitProjector == ProjInit /\ SigIdle /\ NnIdle

NextProjector == CheckChromosomes \/ SelectChromosome \/ ProcessGene \/ BuildFrame

SpecProjector == InitProjector /\ [][NextProjector]_vars

InitSignificant == SigInit /\ ProjIdle /\ NnIdle

NextSignificant == ComputeThresholds \/ Classify

SpecSignificant == InitSignificant /\ [][NextSignificant]_vars

InitNeighbours == NnInit /\ ProjIdle /\ SigIdle

NextNeighbours == DicoStep \/ DicoReturn

SpecNeighbours == InitNeighbours /\ [][NextNeighbours]_vars

(***************************************************************************)
(* Claims about compute_gene_coordinates (SpecProjector).                  *)
(***************************************************************************)
ChromSet(frame) == Range(ChrColumn(frame))

\* The gene the gene loop is at, and the bins of its chromosome within
\* resolution of its start
CurGene == dfChromGene[gi]
CurHits == {r \in Range(dfChromGenome) : Abs(CurGene.start - r.midpoint) < resolution}
LowestHit == CHOOSE r \in CurHits : \A q \in CurHits : r.midpoint <= q.midpoint
HasAfter(r) == \E q \in Range(dfChromGenome) : q.midpoint = r.midpoint + resolution
SameCoordinate(r, q) == r.X = q.X /\ r.Y = q.Y /\ r.Z = q.Z

\* C1: the call raises the chromosome-inconsistency ValueError if and only if
\* the set of chromosome ids of the genes table differs from that of the
\* genome table, whatever the order the two sets are enumerated in.
C1_MismatchIffSetsDiffer ==
    pc # "check" => ((error = "ValueError") <=> (ChromSet(dfGenes) # ChromSet(dfGenome)))

\* C2: a successful run returns exactly one row per input gene, keyed by the
\* gene's identifier, whose chr and start are those of the gene.
C2_OneRowPerGene ==
    pc = "returned" =>
        /\ Len(df) = Len(dfGenes)
        /\ \A g \in DOMAIN dfGenes :
              \E i \in DOMAIN df : /\ df[i].Index = dfGenes[g].Index
                                   /\ df[i].chr = dfGenes[g].chr
                                   /\ df[i].start = dfGenes[g].start

\* C5: a gene whose start equals the midpoint of a bin of its chromosome
\* (first, interior or last) gets exactly that bin's coordinate: processing
\* such a gene does not fail, and its row holds the bin's X, Y, Z.
C5_MidpointGeneGetsBinCoordinate ==
    /\ \A k \in DOMAIN names :
          \A r \in Range(dfGenome) :
             (r.chr = dfGenes[names[k]].chr /\ r.midpoint = dfGenes[names[k]].start) =>
                 /\ Xs[k] = Fl(resolution * r.X)
                 /\ Ys[k] = Fl(resolution * r.Y)
                 /\ Zs[k] = Fl(resolution * r.Z)
    /\ (pc = "raised" /\ error # "ValueError") =>
          \A r \in Range(dfChromGenome) : r.midpoint # CurGene.start

\* C6: when the before anchor chosen for a gene has no bin at
\* before.midpoint + resolution on its chromosome, the call fails with an
\* explicit missing-anchor error for that gene.
C6_MissingAnchorError ==
    [][(pc = "gene" /\ CurHits # {} /\ pointBefor' # <<>> /\ ~HasAfter(pointBefor'[1]))
         => (pc' = "raised" /\ error' = "MissingAnchorError")]_vars

\* C7: when the before and after anchors of a gene have identical 3D
\* coordinates (d = 0) the call fails with a degenerate-segment error and
\* appends no row for the gene.
C7_DegenerateSegmentError ==
    [][(/\ pc = "gene" /\ CurHits # {}
        /\ pointBefor' # <<>> /\ pointAfter' # <<>>
        /\ SameCoordinate(pointBefor'[1], pointAfter'[1]))
         => (pc' = "raised" /\ error' = "DegenerateSegmentError" /\ names' = names)]_vars

\* C9: when two distinct bins of the gene's chromosome are within resolution
\* of its start, the before anchor is the one with the smaller midpoint,
\* whatever the row order of the genome table.
C9_LowestMidpointAnchor ==
    [][(pc = "gene" /\ Cardinality(CurHits) >= 2) => pointBefor' = <<LowestHit>>]_vars

\* C10: every row appended for a gene is computed from two bins of the gene's
\* own chromosome, the before bin within resolution of the gene's start; never
\* from anchors selected for an earlier gene or another chromosome.
C10_AnchorsOfOwnGene ==
    [][Len(names') > Len(names) =>
          /\ pointBefor'[1] \in CurHits
          /\ pointBefor'[1].chr = CurGene.chr
          /\ pointAfter'[1].chr = CurGene.chr
          /\ pointAfter'[1].midpoint = pointBefor'[1].midpoint + resolution]_vars

(***************************************************************************)
(* Claims about get_significant_corr_genes (SpecSignificant).              *)
(***************************************************************************)
\* The k-th smallest element of a non-empty list of doubles, by counting
Kth(s, k) ==
    CHOOSE x \in Range(s) :
        /\ Cardinality({i \in DOMAIN s : DLess(s[i], x)}) < k
        /\ k <= Cardinality({i \in DOMAIN s : DLe(s[i], x)})

\* The median of a non-empty list: the mean of its two middle elements
\* (which are the same element when the length is odd)
MedianOf(s) == DHalf(DAdd(Kth(s, (Len(s) + 1) \div 2), Kth(s, (Len(s) + 2) \div 2)))

SignedSums(d) == [i \in DOMAIN d |-> d[i][2][1]]

\* s > median + c*MAD or (s <= median - c*MAD and s <= 0), over the sums of d
IsSignificant(d, c, i) ==
    LET s == SignedSums(d)
        m == MedianOf(s)
        w == DMulNat(c, MedianOf([k \in DOMAIN s |-> DAbs(DSub(s[k], m))]))
    IN \/ DLess(DAdd(m, w), s[i])
       \/ (DLe(s[i], DSub(m, w)) /\ ~DLess(DZero, s[i]))

PositionOf(d, k) == CHOOSE i \in DOMAIN d : d[i][1] = k

\* C3: the result holds exactly the genes whose signed sum s satisfies
\* s > median + coef*MAD or (s <= median - coef*MAD and s <= 0), each once, in
\* the iteration order of the input mapping; on the outlier example with
\* coef = 2 it is <<"E">>.
C3_SignificantGenes ==
    /\ (pc = "done" /\ corSumsDict # <<>>) =>
          /\ Range(significant) =
                {corSumsDict[i][1] : i \in {j \in DOMAIN corSumsDict :
                                              IsSignificant(corSumsDict, coef, j)}}
          /\ \A i, j \in DOMAIN significant :
                i < j => PositionOf(corSumsDict, significant[i])
                            < PositionOf(corSumsDict, significant[j])
    /\ (pc = "done" /\ corSumsDict = <<>>) => significant = <<>>
    /\ (pc = "done" /\ corSumsDict = OutlierExample /\ coef = 2) => significant = <<"E">>

\* A run that returned genes of both tails and left some gene out
C3_Witness ==
    /\ pc = "done"
    /\ Len(significant) < Len(corSumsDict)
    /\ \E i, j \in DOMAIN corSumsDict :
          /\ corSumsDict[i][1] \in Range(significant)
          /\ corSumsDict[j][1] \in Range(significant)
          /\ DLess(thresP, corSumsDict[i][2][1])
          /\ DLe(corSumsDict[j][2][1], thresN)
          /\ DLe(corSumsDict[j][2][1], DZero)
          /\ i < j

\* C8: degenerate input is handled by an explicit policy: with fewer than two
\* summaries, or with MAD = 0, no gene is returned as significant.
C8_DegenerateInputPolicy ==
    (pc = "done" /\ (Len(corSumsDict) < 2 \/ mad = DZero)) => significant = <<>>

(***************************************************************************)
(* Claims about dico_matrice (SpecNeighbours).                             *)
(***************************************************************************)
\* C4: the neighbour list built for an entity never contains the entity
\* itself and is in non-decreasing distance order.
C4_NeighboursExcludeSelf ==
    \A e \in DOMAIN dico :
        /\ \A n \in DOMAIN dico[e][2] : dico[e][2][n][1] # dico[e][1]
        /\ \A n \in DOMAIN dico[e][2] : n > 1 => dico[e][2][n - 1][2] <= dico[e][2][n][2]

====
